---- MODULE Spec2Model ----
(***************************************************************************)
(* A model of app.py, the Streamlit script of Graphycs.                    *)
(*                                                                         *)
(* The script is re-executed from top to bottom on every user interaction. *)
(* What survives from one run to the next is st.session_state (fig,        *)
(* x_values, y_values, plotted), the widget values (x_input, y_input,      *)
(* x_unit, y_unit) and the page drawn by the last run, which decides which *)
(* buttons the user can press next.  One action of the model is one user   *)
(* interaction together with the whole script run it triggers.             *)
(*                                                                         *)
(* Text is a sequence of atoms: an input string is a sequence of           *)
(* characters, a unit label a sequence of words and separators.  Floats    *)
(* are exact rationals [num, den]; binary rounding is not modelled.        *)
(***************************************************************************)
EXTENDS Integers, Sequences, FiniteSets, TLC

VARIABLES
    x_input,          \* st.text_input "Enter X values"
    y_input,          \* st.text_input "Enter Y values"
    x_unit,           \* st.selectbox "X-axis Unit"
    y_unit,           \* st.selectbox "Y-axis Unit"
    fig,              \* st.session_state['fig']
    x_values,         \* st.session_state['x_values']
    y_values,         \* st.session_state['y_values']
    plotted,          \* st.session_state['plotted']
    event,            \* the interaction that triggered the last script run
    call,             \* the plot_data call the last run made: "none", "plot", "fit"
    message,          \* the st.error text of the last run
    info,             \* the st.info gradient read-out of the last run
    hint,             \* the last run showed the "Enter your data ..." st.info
    toast,            \* the last interaction raised the "Input fields cleared!" toast
    shown,            \* the arguments of the st.pyplot calls of the last run, in order
    gradient_button,  \* the page of the last run holds "Calculate Gradient (Best-Fit)"
    download_button,  \* the page of the last run holds "Download Plot as PNG"
    plot_since_clear  \* history: a Plot Data succeeded since the last Clear

vars == <<x_input, y_input, x_unit, y_unit, fig, x_values, y_values, plotted,
          event, call, message, info, hint, toast, shown, gradient_button,
          download_button, plot_since_clear>>

(***************************************************************************)
(* Bounds of the model.                                                    *)
(***************************************************************************)
\* longest generated input string, in characters (SpecParse)
MaxLen == 3
\* the unit selectboxes offer the first MaxUnit entries of PHYSICS_UNITS (Spec)
MaxUnit == 1

(***************************************************************************)
(* Python values.                                                          *)
(***************************************************************************)
None == [none |-> TRUE]

NaN == [num |-> 0, den |-> 0]

PHYSICS_UNITS ==
    << <<"None", " ", "(Dimensionless)">>,
       <<"Time", " ", "(s)">>,
       <<"Length", " ", "(m)">>,
       <<"Mass", " ", "(kg)">>,
       <<"Force", " ", "(N)">>,
       <<"Velocity", " ", "(m/s)">>,
       <<"Acceleration", " ", "(m/s2)">>,
       <<"Voltage", " ", "(V)">>,
       <<"Current", " ", "(A)">>,
       <<"Resistance", " ", "(Ohm)">>,
       <<"Energy", " ", "(J)">>,
       <<"Power", " ", "(W)">> >>

\* st.selectbox(..., index=1) and index=4, zero-based in the source
DefaultXUnit == PHYSICS_UNITS[2]

DefaultYUnit == PHYSICS_UNITS[5]

\* value="1, 2, 3, 4, 5"
DefaultX == <<"1", ",", " ", "2", ",", " ", "3", ",", " ", "4", ",", " ", "5">>

\* value="1, 4, 9, 16, 25"
DefaultY == <<"1", ",", " ", "4", ",", " ", "9", ",", " ", "1", "6", ",", " ", "2", "5">>

ErrEmpty == "Please enter data for both the X and Y axes."

ErrMismatch == "The number of X values must match the number of Y values."

ErrPoints == "Need at least two data points to calculate a meaningful linear gradient."

ErrInvalid == "Invalid input. Please ensure all values are numbers and separated by commas."

NoMessage == ""

(***************************************************************************)
(* str.split(','), str.strip() and float() on the characters of the model. *)
(***************************************************************************)
Digits == <<"0", "1", "2", "3", "4", "5", "6", "7", "8", "9">>

IsDigit(c) == \E i \in 1..Len(Digits) : Digits[i] = c

DigitVal(c) == (CHOOSE i \in 1..Len(Digits) : Digits[i] = c) - 1

\* s.split(','): the segments between the commas, empty ones included
RECURSIVE Split(_)
Split(s) ==
    IF \A i \in 1..Len(s) : s[i] # ","
    THEN <<s>>
    ELSE LET i == CHOOSE k \in 1..Len(s) :
                      s[k] = "," /\ \A j \in 1..(k - 1) : s[j] # ","
         IN  <<SubSeq(s, 1, i - 1)>> \o Split(SubSeq(s, i + 1, Len(s)))

\* s.strip(): leading and trailing blanks removed
RECURSIVE Strip(_)
Strip(s) ==
    IF s = <<>> THEN s
    ELSE IF Head(s) = " " THEN Strip(Tail(s))
    ELSE IF s[Len(s)] = " " THEN Strip(SubSeq(s, 1, Len(s) - 1))
    ELSE s

RECURSIVE DigitsValue(_)
DigitsValue(s) ==
    IF s = <<>> THEN 0
    ELSE 10 * DigitsValue(SubSeq(s, 1, Len(s) - 1)) + DigitVal(s[Len(s)])

\* float(t) succeeds: an optional sign and at least one digit (the characters
\* of the model hold no decimal point and no exponent)
IsFloat(t) ==
    LET body == IF t # <<>> /\ Head(t) \in {"-", "+"} THEN Tail(t) ELSE t
    IN  body # <<>> /\ \A i \in 1..Len(body) : IsDigit(body[i])

\* float(t) of a token for which it succeeds
Float(t) ==
    IF Head(t) = "-" THEN 0 - DigitsValue(Tail(t))
    ELSE IF Head(t) = "+" THEN DigitsValue(Tail(t))
    ELSE DigitsValue(t)

RECURSIVE MapStrip(_)
MapStrip(segs) ==
    IF segs = <<>> THEN <<>> ELSE <<Strip(Head(segs))>> \o MapStrip(Tail(segs))

NonEmpty(t) == t # <<>>

\* the tokens the list comprehension converts: [val.strip() ... if val.strip()]
Tokens(s) == SelectSeq(MapStrip(Split(s)), NonEmpty)

\* a comprehension that drops what float() rejects instead of raising
ParseSeries_SkipInvalid(s) ==
    LET toks == SelectSeq(Tokens(s), IsFloat)
    IN  [raised |-> FALSE, values |-> [i \in 1..Len(toks) |-> Float(toks[i])]]

\* [float(val.strip()) for val in s.split(',') if val.strip()]:
\* raises ValueError at the first token float() rejects
ParseSeries(s) ==
    LET toks == Tokens(s)
    IN  IF \E i \in 1..Len(toks) : ~IsFloat(toks[i])
        THEN [raised |-> TRUE, values |-> <<>>]
        ELSE [raised |-> FALSE, values |-> [i \in 1..Len(toks) |-> Float(toks[i])]]

(***************************************************************************)
(* Rationals standing for the floats of the regression.                    *)
(***************************************************************************)
Abs(n) == IF n < 0 THEN 0 - n ELSE n

RECURSIVE GCD(_, _)
GCD(a, b) == IF b = 0 THEN a ELSE GCD(b, a % b)

\* n/d in lowest terms with a positive denominator; 0/0 is nan (the only
\* division by zero of the regression: ssxm = 0 makes ssxym = 0)
Rat(n, d) ==
    IF d = 0 THEN NaN
    ELSE LET g == GCD(Abs(n), Abs(d))
             sgn == IF d < 0 THEN 0 - 1 ELSE 1
         IN  [num |-> sgn * (n \div g), den |-> sgn * (d \div g)]

RatAdd(a, b) ==
    IF a = NaN \/ b = NaN THEN NaN
    ELSE Rat(a.num * b.den + b.num * a.den, a.den * b.den)

RatMul(a, b) ==
    IF a = NaN \/ b = NaN THEN NaN ELSE Rat(a.num * b.num, a.den * b.den)

RECURSIVE Sum(_)
Sum(s) == IF s = <<>> THEN 0 ELSE Head(s) + Sum(Tail(s))

\* f"{gradient:.4f}": the value in units of 1/10000, ties to even
Format4(r) ==
    IF r = NaN THEN [nan |-> TRUE, scaled |-> 0]
    ELSE LET n == r.num * 10000
             q == n \div r.den
             rem == n % r.den
             up == 2 * rem > r.den \/ (2 * rem = r.den /\ q % 2 = 1)
         IN  [nan |-> FALSE, scaled |-> IF up THEN q + 1 ELSE q]

(***************************************************************************)
(* scipy.stats.linregress, as far as the script uses it: slope and         *)
(* intercept (r_value, p_value and std_err are unpacked and never read).   *)
(*   xmean, ymean = means;  ssxm, ssxym = np.cov(x, y, bias=1)             *)
(*   slope = ssxym / ssxm;  intercept = ymean - slope * xmean              *)
(* It raises ValueError on empty input, on inputs of different lengths and *)
(* when all x values are identical (len(x) > 1).                           *)
(***************************************************************************)
\* an intercept that forgets the factor xmean
OlsIntercept_NoMeanX(slope, sx, sy, n) ==
    RatAdd(Rat(sy, n), RatMul(Rat(0 - 1, 1), slope))

\* intercept = ymean - slope * xmean, with sx, sy the sums of the n values
OlsIntercept(slope, sx, sy, n) ==
    RatAdd(Rat(sy, n), RatMul(Rat(0 - 1, 1), RatMul(slope, Rat(sx, n))))

Linregress(xs, ys) ==
    LET n == Len(xs)
        failed == [raised |-> TRUE, slope |-> NaN, intercept |-> NaN]
    IN  IF n = 0 \/ Len(ys) = 0 \/ n # Len(ys) THEN failed
        ELSE IF n > 1 /\ \A i \in 1..n : xs[i] = xs[1] THEN failed
        ELSE LET sx == Sum(xs)
                 sy == Sum(ys)
                 \* n^3 * ssxm and n^3 * ssxym, on the deviations n*v - sum
                 ssxm == Sum([i \in 1..n |-> (n * xs[i] - sx) * (n * xs[i] - sx)])
                 ssxym == Sum([i \in 1..n |-> (n * xs[i] - sx) * (n * ys[i] - sy)])
                 slope == Rat(ssxym, ssxm)
             IN  [raised |-> FALSE, slope |-> slope,
                  intercept |-> OlsIntercept(slope, sx, sy, n)]

(***************************************************************************)
(* The gradient unit label of plot_data.                                   *)
(***************************************************************************)
\* label.split(' ')[0]
FirstWord(label) ==
    IF \A i \in 1..Len(label) : label[i] # " " THEN label
    ELSE LET i == CHOOSE k \in 1..Len(label) :
                      label[k] = " " /\ \A j \in 1..(k - 1) : label[j] # " "
         IN  SubSeq(label, 1, i - 1)

\* 'None' in unit_str
HasNone(str) == \E i \in 1..Len(str) : str[i] = "None"

\* the two elif branches with their conditions exchanged
GradUnit_Swapped(x_unit_label, y_unit_label) ==
    LET y_unit_str == FirstWord(y_unit_label)
        x_unit_str == FirstWord(x_unit_label)
    IN  IF HasNone(x_unit_str) /\ HasNone(y_unit_str) THEN <<>>
        ELSE IF HasNone(y_unit_str) THEN <<"(">> \o y_unit_label \o <<")">>
        ELSE IF HasNone(x_unit_str) THEN <<"(1/">> \o x_unit_label \o <<")">>
        ELSE <<"(">> \o y_unit_str \o <<"/">> \o x_unit_str \o <<")">>

GradUnit(x_unit_label, y_unit_label) ==
    LET y_unit_str == FirstWord(y_unit_label)
        x_unit_str == FirstWord(x_unit_label)
    IN  IF HasNone(x_unit_str) /\ HasNone(y_unit_str) THEN <<>>
        ELSE IF HasNone(x_unit_str) THEN <<"(">> \o y_unit_label \o <<")">>
        ELSE IF HasNone(y_unit_str) THEN <<"(1/">> \o x_unit_label \o <<")">>
        ELSE <<"(">> \o y_unit_str \o <<"/">> \o x_unit_str \o <<")">>

(***************************************************************************)
(* plot_data.                                                              *)
(***************************************************************************)
\* the figure after ax.plot / set_xlabel / set_ylabel / set_title
Scatter(xs, ys, x_unit_label, y_unit_label) ==
    [x |-> xs, y |-> ys,
     xlabel |-> <<"X-axis (">> \o x_unit_label \o <<")">>,
     ylabel |-> <<"Y-axis (">> \o y_unit_label \o <<")">>,
     title |-> y_unit_label \o <<" vs ">> \o x_unit_label \o <<" Plot">>,
     fit |-> None]

\* the best-fit line drawn on the figure, with its legend entry
BestFit(xs, lr) ==
    [slope |-> lr.slope, intercept |-> lr.intercept,
     x_fit |-> xs,
     y_fit |-> [i \in 1..Len(xs) |->
                    RatAdd(lr.intercept, RatMul(lr.slope, Rat(xs[i], 1)))],
     legend |-> Format4(lr.slope)]

\* "return None, [], []" after st.error(text)
Rejected(text) ==
    [fig |-> None, x_values |-> <<>>, y_values |-> <<>>, error |-> text, info |-> None]

\* the emptiness test written with "or" for "and"
Validate_EmptyOr(xs, ys) ==
    IF ~(xs # <<>> \/ ys # <<>>) THEN ErrEmpty
    ELSE IF Len(xs) # Len(ys) THEN ErrMismatch
    ELSE NoMessage

\* the length comparison left out
Validate_NoLengthCheck(xs, ys) ==
    IF ~(xs # <<>> /\ ys # <<>>) THEN ErrEmpty ELSE NoMessage

\* the two checks before the plot is created: the message of the one that fails
Validate(xs, ys) ==
    IF ~(xs # <<>> /\ ys # <<>>) THEN ErrEmpty
    ELSE IF Len(xs) # Len(ys) THEN ErrMismatch
    ELSE NoMessage

\* the guard written "< 1"
TooFewPoints_OffByOne(xs) == Len(xs) < 1

\* len(x_values) < 2
TooFewPoints(xs) == Len(xs) < 2

plot_data(x_str, y_str, x_unit_label, y_unit_label, show_gradient) ==
    LET px == ParseSeries(x_str)
        py == ParseSeries(y_str)
        xs == px.values
        ys == py.values
        scatter == Scatter(xs, ys, x_unit_label, y_unit_label)
    IN  IF px.raised \/ py.raised THEN Rejected(ErrInvalid)
        ELSE IF Validate(xs, ys) # NoMessage THEN Rejected(Validate(xs, ys))
        \* ax.plot raises ValueError on series of different lengths
        ELSE IF Len(xs) # Len(ys) THEN Rejected(ErrInvalid)
        ELSE IF ~show_gradient
        THEN [fig |-> scatter, x_values |-> xs, y_values |-> ys,
              error |-> NoMessage, info |-> None]
        ELSE IF TooFewPoints(xs)
        THEN [fig |-> scatter, x_values |-> xs, y_values |-> ys,
              error |-> ErrPoints, info |-> None]
        ELSE LET lr == Linregress(xs, ys)
             IN  IF lr.raised THEN Rejected(ErrInvalid)
                 ELSE [fig |-> [scatter EXCEPT !.fit = BestFit(xs, lr)],
                       x_values |-> xs, y_values |-> ys,
                       error |-> NoMessage,
                       info |-> [gradient |-> Format4(lr.slope),
                                 unit |-> GradUnit(x_unit_label, y_unit_label)]]

(***************************************************************************)
(* The inputs the user can enter.                                          *)
(***************************************************************************)
Alphabet == {"1", "a", ",", " "}

\* every string of at most n characters
Strings(n) == UNION {[1..k -> Alphabet] : k \in 0..n}

\* "", "1,a,3", "1,2,3", "1, 2, 3", "4,5"
ParseExamples ==
    { <<>>,
      <<"1", ",", "a", ",", "3">>,
      <<"1", ",", "2", ",", "3">>,
      <<"1", ",", " ", "2", ",", " ", "3">>,
      <<"4", ",", "5">> }

\* the defaults, "", "1,a,3", "2,2", "7"
SessionInputs ==
    { DefaultX, DefaultY, <<>>,
      <<"1", ",", "a", ",", "3">>,
      <<"2", ",", "2">>,
      <<"7">> }

(***************************************************************************)
(* The script run.                                                         *)
(***************************************************************************)
\* The display part of a run that calls no handler, with session figure f and
\* flag p: the st.pyplot of line 198, the buttons under the plot, and the
\* trailing elif chain.
Page(f, p, plot_button) ==
    /\ shown' = IF f # None THEN <<f>> ELSE <<>>
    /\ gradient_button' = (f # None)
    /\ download_button' = (f # None)
    /\ hint' = (f = None /\ ~p /\ ~plot_button)

\* a run triggered by a widget that has no handler in the script
Rerun(trigger) ==
    /\ event' = trigger
    /\ call' = "none"
    /\ message' = NoMessage
    /\ info' = None
    /\ toast' = FALSE
    /\ Page(fig, plotted, FALSE)
    /\ UNCHANGED <<fig, x_values, y_values, plotted, plot_since_clear>>

Init ==
    /\ x_input = DefaultX
    /\ y_input = DefaultY
    /\ x_unit = DefaultXUnit
    /\ y_unit = DefaultYUnit
    /\ fig = None
    /\ x_values = <<>>
    /\ y_values = <<>>
    /\ plotted = FALSE
    /\ event = "start"
    /\ call = "none"
    /\ message = NoMessage
    /\ info = None
    /\ hint = TRUE
    /\ toast = FALSE
    /\ shown = <<>>
    /\ gradient_button = FALSE
    /\ download_button = FALSE
    /\ plot_since_clear = FALSE

EditX ==
    \E s \in SessionInputs :
        /\ s # x_input
        /\ x_input' = s
        /\ UNCHANGED <<y_input, x_unit, y_unit>>
        /\ Rerun("edit")

EditY ==
    \E s \in SessionInputs :
        /\ s # y_input
        /\ y_input' = s
        /\ UNCHANGED <<x_input, x_unit, y_unit>>
        /\ Rerun("edit")

SelectXUnit ==
    \E i \in 1..MaxUnit :
        /\ PHYSICS_UNITS[i] # x_unit
        /\ x_unit' = PHYSICS_UNITS[i]
        /\ UNCHANGED <<x_input, y_input, y_unit>>
        /\ Rerun("edit")

SelectYUnit ==
    \E i \in 1..MaxUnit :
        /\ PHYSICS_UNITS[i] # y_unit
        /\ y_unit' = PHYSICS_UNITS[i]
        /\ UNCHANGED <<x_input, y_input, x_unit>>
        /\ Rerun("edit")

\* "Plot Data": the branch "if plot_button"
PlotData ==
    LET r == plot_data(x_input, y_input, x_unit, y_unit, FALSE)
    IN  /\ fig' = r.fig
        /\ x_values' = r.x_values
        /\ y_values' = r.y_values
        /\ plotted' = (r.fig # None)
        /\ event' = "plot"
        /\ call' = "plot"
        /\ message' = r.error
        /\ info' = r.info
        /\ toast' = FALSE
        /\ Page(r.fig, r.fig # None, TRUE)
        /\ plot_since_clear' = (plot_since_clear \/ r.fig # None)
        /\ UNCHANGED <<x_input, y_input, x_unit, y_unit>>

\* "Clear Plot/State": the on_click callback clear_inputs, then the run
clear_inputs ==
    /\ fig' = None
    /\ x_values' = <<>>
    /\ y_values' = <<>>
    /\ plotted' = FALSE
    /\ toast' = TRUE

\* a callback that leaves the figure in place
ClearPlot_KeepsFig ==
    /\ x_values' = <<>>
    /\ y_values' = <<>>
    /\ plotted' = FALSE
    /\ toast' = TRUE
    /\ event' = "clear"
    /\ call' = "none"
    /\ message' = NoMessage
    /\ info' = None
    /\ Page(fig, FALSE, FALSE)
    /\ plot_since_clear' = FALSE
    /\ UNCHANGED <<fig, x_input, y_input, x_unit, y_unit>>

ClearPlot ==
    /\ clear_inputs
    /\ event' = "clear"
    /\ call' = "none"
    /\ message' = NoMessage
    /\ info' = None
    /\ Page(None, FALSE, FALSE)
    /\ plot_since_clear' = FALSE
    /\ UNCHANGED <<x_input, y_input, x_unit, y_unit>>

\* a handler that also stores the series plot_data returns
ClickGradient_StoresSeries ==
    /\ gradient_button
    /\ fig # None
    /\ LET r == plot_data(x_input, y_input, x_unit, y_unit, TRUE)
       IN  /\ fig' = r.fig
           /\ x_values' = r.x_values
           /\ y_values' = r.y_values
           /\ call' = "fit"
           /\ message' = r.error
           /\ info' = r.info
           /\ shown' = <<fig, r.fig>>
           /\ gradient_button' = TRUE
           /\ download_button' = (r.fig # None)
           /\ hint' = FALSE
           /\ UNCHANGED plotted
    /\ event' = "gradient"
    /\ toast' = FALSE
    /\ UNCHANGED <<x_input, y_input, x_unit, y_unit, plot_since_clear>>

\* "Calculate Gradient (Best-Fit)": a click on the button the last run drew.
\* The run reaches the button only under "if st.session_state['fig']"; when it
\* does not, the click is dropped and the run only redraws the page.
ClickGradient ==
    /\ gradient_button
    /\ IF fig # None
       THEN LET r == plot_data(x_input, y_input, x_unit, y_unit, TRUE)
            IN  /\ fig' = r.fig
                /\ call' = "fit"
                /\ message' = r.error
                /\ info' = r.info
                /\ shown' = <<fig, r.fig>>
                /\ gradient_button' = TRUE
                /\ download_button' = (r.fig # None)
                /\ hint' = FALSE
                /\ UNCHANGED <<x_values, y_values, plotted>>
       ELSE /\ call' = "none"
            /\ message' = NoMessage
            /\ info' = None
            /\ Page(fig, plotted, FALSE)
            /\ UNCHANGED <<fig, x_values, y_values, plotted>>
    /\ event' = "gradient"
    /\ toast' = FALSE
    /\ UNCHANGED <<x_input, y_input, x_unit, y_unit, plot_since_clear>>

\* "Download Plot as PNG": the click reruns the script, which has no handler
ClickDownload ==
    /\ download_button
    /\ Rerun("download")
    /\ UNCHANGED <<x_input, y_input, x_unit, y_unit>>

Next ==
    \/ EditX
    \/ EditY
    \/ SelectXUnit
    \/ SelectYUnit
    \/ PlotData
    \/ ClearPlot
    \/ ClickGradient
    \/ ClickDownload

Spec == Init /\ [][Next]_vars

(***************************************************************************)
(* The parser on every pair of bounded input strings: the session starts   *)
(* with the two strings already typed and the buttons are pressed.         *)
(***************************************************************************)
InitParse ==
    /\ x_input \in Strings(MaxLen) \cup ParseExamples
    /\ y_input \in Strings(MaxLen) \cup ParseExamples
    /\ x_unit = DefaultXUnit
    /\ y_unit = DefaultYUnit
    /\ fig = None
    /\ x_values = <<>>
    /\ y_values = <<>>
    /\ plotted = FALSE
    /\ event = "start"
    /\ call = "none"
    /\ message = NoMessage
    /\ info = None
    /\ hint = TRUE
    /\ toast = FALSE
    /\ shown = <<>>
    /\ gradient_button = FALSE
    /\ download_button = FALSE
    /\ plot_since_clear = FALSE

NextParse ==
    \/ PlotData
    \/ ClickGradient

SpecParse == InitParse /\ [][NextParse]_vars

(***************************************************************************)
(* The gradient unit on every pair of entries of PHYSICS_UNITS, with the   *)
(* default data.                                                           *)
(***************************************************************************)
InitUnits ==
    /\ x_input = DefaultX
    /\ y_input = DefaultY
    /\ x_unit \in {PHYSICS_UNITS[i] : i \in 1..Len(PHYSICS_UNITS)}
    /\ y_unit \in {PHYSICS_UNITS[i] : i \in 1..Len(PHYSICS_UNITS)}
    /\ fig = None
    /\ x_values = <<>>
    /\ y_values = <<>>
    /\ plotted = FALSE
    /\ event = "start"
    /\ call = "none"
    /\ message = NoMessage
    /\ info = None
    /\ hint = TRUE
    /\ toast = FALSE
    /\ shown = <<>>
    /\ gradient_button = FALSE
    /\ download_button = FALSE
    /\ plot_since_clear = FALSE

NextUnits ==
    \/ PlotData
    \/ ClickGradient

SpecUnits == InitUnits /\ [][NextUnits]_vars

(***************************************************************************)
(* Vocabulary of the properties, stated on the input text itself.          *)
(***************************************************************************)
\* the maximal comma-free stretches <<i, j>> of s (j = i - 1: an empty one)
Segments(s) ==
    {p \in (1..(Len(s) + 1)) \X (0..Len(s)) :
        /\ p[2] >= p[1] - 1
        /\ (p[1] = 1 \/ s[p[1] - 1] = ",")
        /\ (p[2] = Len(s) \/ s[p[2] + 1] = ",")
        /\ \A k \in p[1]..p[2] : s[k] # ","}

NonBlank(s, p) == \E k \in p[1]..p[2] : s[k] # " "

\* the non-empty tokens of s
TokenSegments(s) == {p \in Segments(s) : NonBlank(s, p)}

TokenCount(s) == Cardinality(TokenSegments(s))

\* some non-empty token of s, trimmed, is not a number
HasBadToken(s) ==
    \E p \in TokenSegments(s) : ~IsFloat(Strip(SubSeq(s, p[1], p[2])))

Idle ==
    fig = None /\ x_values = <<>> /\ y_values = <<>> /\ plotted = FALSE

(***************************************************************************)
(* C1.  As claimed: an action (Plot Data or Calculate Gradient) that ends  *)
(* in an error message leaves the held plot and the stored series as they  *)
(* were before the action.                                                 *)
(***************************************************************************)
C1_ErrorKeepsPriorState ==
    [][(call' # "none" /\ message' # NoMessage)
          => (fig' = fig /\ x_values' = x_values /\ y_values' = y_values)]_vars

(***************************************************************************)
(* C1, amended.  An action that ends in an error message other than the    *)
(* too-few-points one leaves no plot held (fig = None, no download         *)
(* offered); after a failing Plot Data the stored series are empty,        *)
(* plotted is False and nothing is drawn; a failing Calculate Gradient     *)
(* leaves the stored series and the plotted flag as they were; the         *)
(* too-few-points message comes only from Calculate Gradient, which then   *)
(* holds the scatter chart of the current inputs without a best-fit line.  *)
(***************************************************************************)
C1_ErrorOutcome ==
    [][(call' # "none" /\ message' # NoMessage)
          => /\ (message' # ErrPoints => fig' = None /\ ~download_button')
             /\ (call' = "plot"
                    => /\ x_values' = <<>> /\ y_values' = <<>>
                       /\ plotted' = FALSE /\ shown' = <<>>)
             /\ (call' = "fit"
                    => /\ x_values' = x_values /\ y_values' = y_values
                       /\ plotted' = plotted)
             /\ (message' = ErrPoints
                    => /\ call' = "fit"
                       /\ fig' = Scatter(ParseSeries(x_input').values,
                                         ParseSeries(y_input').values,
                                         x_unit', y_unit'))]_vars

\* a Calculate Gradient on edited, non-numeric input has removed the plot
C1_Witness ==
    /\ call = "fit"
    /\ message = ErrInvalid
    /\ fig = None
    /\ x_values # <<>>
    /\ plotted

(***************************************************************************)
(* C2.  If any non-empty comma-separated token (trimmed) of either input   *)
(* string is not a valid number, the parse fails with the invalid-input    *)
(* (NonNumeric) message and yields no chart and empty series.              *)
(***************************************************************************)
C2_NonNumericRejected ==
    (call # "none" /\ (HasBadToken(x_input) \/ HasBadToken(y_input)))
        => /\ message = ErrInvalid
           /\ fig = None
           /\ info = None
           /\ (call = "plot" => x_values = <<>> /\ y_values = <<>>)

\* parse("1,a,3", "1,2,3")
C2_Witness ==
    /\ call = "plot"
    /\ x_input = <<"1", ",", "a", ",", "3">>
    /\ y_input = <<"1", ",", "2", ",", "3">>
    /\ message = ErrInvalid
    /\ fig = None

(***************************************************************************)
(* C3.  If all tokens are numeric and the two series are both non-empty    *)
(* but of different lengths, the parse fails with the length-mismatch      *)
(* message and yields no chart and empty series.                           *)
(***************************************************************************)
C3_LengthMismatchRejected ==
    (/\ call # "none"
     /\ ~HasBadToken(x_input) /\ ~HasBadToken(y_input)
     /\ TokenCount(x_input) > 0 /\ TokenCount(y_input) > 0
     /\ TokenCount(x_input) # TokenCount(y_input))
        => /\ message = ErrMismatch
           /\ fig = None
           /\ info = None
           /\ (call = "plot" => x_values = <<>> /\ y_values = <<>>)

\* parse("1, 2, 3", "4,5")
C3_Witness ==
    /\ call = "plot"
    /\ x_input = <<"1", ",", " ", "2", ",", " ", "3">>
    /\ y_input = <<"4", ",", "5">>
    /\ message = ErrMismatch
    /\ fig = None

(***************************************************************************)
(* C4.  As claimed: for every pair of input strings, if either series is   *)
(* empty after splitting, trimming and discarding empty tokens, the parse  *)
(* fails with the Empty message and yields no chart.                       *)
(***************************************************************************)
C4_EmptyRejectedAlways ==
    (call # "none" /\ (TokenCount(x_input) = 0 \/ TokenCount(y_input) = 0))
        => (message = ErrEmpty /\ fig = None)

(***************************************************************************)
(* C4, amended.  For every pair of input strings whose non-empty tokens    *)
(* are all valid numbers, if either series is empty the parse fails with   *)
(* the Empty message (also when the other series is non-empty) and yields  *)
(* no chart and empty series.                                              *)
(***************************************************************************)
C4_EmptyRejected ==
    (/\ call # "none"
     /\ ~HasBadToken(x_input) /\ ~HasBadToken(y_input)
     /\ (TokenCount(x_input) = 0 \/ TokenCount(y_input) = 0))
        => /\ message = ErrEmpty
           /\ fig = None
           /\ info = None
           /\ (call = "plot" => x_values = <<>> /\ y_values = <<>>)

\* an empty X series beside a non-empty Y series
C4_Witness ==
    /\ call = "plot"
    /\ TokenCount(x_input) = 0
    /\ TokenCount(y_input) > 0
    /\ message = ErrEmpty
    /\ fig = None

(***************************************************************************)
(* C5.  A fit requested on parsed series of fewer than 2 points ends with  *)
(* the too-few-points message and produces no best-fit line and no         *)
(* gradient read-out; a figure carries a best-fit line, and a gradient is  *)
(* reported, only when both series have at least 2 points.                 *)
(***************************************************************************)
C5_FitNeedsTwoPoints ==
    /\ (fig # None /\ fig.fit # None) => (Len(fig.x) >= 2 /\ Len(fig.y) >= 2)
    /\ info # None => (fig # None /\ fig.fit # None)
    /\ \A i \in 1..Len(shown) :
          (shown[i] # None /\ shown[i].fit # None) => Len(shown[i].x) >= 2
    /\ (/\ call = "fit"
        /\ ~HasBadToken(x_input) /\ ~HasBadToken(y_input)
        /\ TokenCount(x_input) = 1 /\ TokenCount(y_input) = 1)
          => /\ message = ErrPoints
             /\ fig # None /\ fig.fit = None
             /\ info = None

\* Calculate Gradient on the single point (7, 7)
C5_Witness ==
    /\ call = "fit"
    /\ x_input = <<"7">>
    /\ y_input = <<"7">>
    /\ message = ErrPoints
    /\ fig # None

(***************************************************************************)
(* C6.  As claimed: a fit on two equal-length series (length >= 2) whose   *)
(* X values are all identical ends with an error of its own, distinct from *)
(* the invalid-input message and from every other error of the program.    *)
(***************************************************************************)
C6_DegenerateXDistinct ==
    LET px == ParseSeries(x_input)
        py == ParseSeries(y_input)
    IN  (/\ call = "fit"
         /\ ~px.raised /\ ~py.raised
         /\ Len(px.values) = Len(py.values)
         /\ Len(px.values) >= 2
         /\ \A i \in 1..Len(px.values) : px.values[i] = px.values[1])
            => message \notin {NoMessage, ErrInvalid, ErrEmpty, ErrMismatch, ErrPoints}

(***************************************************************************)
(* C7.  For every pair of entries of PHYSICS_UNITS the gradient unit is:   *)
(* empty when both are the dimensionless entry; the inverse of the X unit  *)
(* label when only Y is dimensionless; the Y unit label as it is when only *)
(* X is dimensionless; otherwise the ratio of the Y unit to the X unit     *)
(* (each by its first word), every non-empty form in parentheses.          *)
(***************************************************************************)
C7_ExpectedUnit ==
    LET dimensionless == PHYSICS_UNITS[1]
    IN  CASE x_unit = dimensionless /\ y_unit = dimensionless -> <<>>
          [] x_unit # dimensionless /\ y_unit = dimensionless ->
                <<"(1/">> \o x_unit \o <<")">>
          [] x_unit = dimensionless /\ y_unit # dimensionless ->
                <<"(">> \o y_unit \o <<")">>
          [] OTHER -> <<"(", y_unit[1], "/", x_unit[1], ")">>

C8_SlopeInterceptAsStated ==
    (call = "fit" /\ x_input = DefaultX /\ y_input = DefaultY)
        => /\ fig # None /\ fig.fit # None
           /\ fig.fit.slope = [num |-> 6, den |-> 1]
           /\ fig.fit.intercept = [num |-> 0 - 24, den |-> 5]

(***************************************************************************)
(* C8, amended.  The fit of x = [1,2,3,4,5], y = [1,4,9,16,25] has the     *)
(* slope and intercept of the closed-form least-squares formulas, and      *)
(* those values are slope 6.0 and intercept -7.0.                          *)
(***************************************************************************)
C8_SlopeIntercept ==
    (call = "fit" /\ x_input = DefaultX /\ y_input = DefaultY)
        => /\ fig # None /\ fig.fit # None
           /\ fig.x = <<1, 2, 3, 4, 5>>
           /\ fig.y = <<1, 4, 9, 16, 25>>
           /\ LET n == 5
                  sx == 1 + 2 + 3 + 4 + 5
                  sy == 1 + 4 + 9 + 16 + 25
                  sxx == 1 + 4 + 9 + 16 + 25
                  sxy == 1 + 8 + 27 + 64 + 125
                  m == fig.fit.slope
                  c == fig.fit.intercept
              IN  \* m = (n*sxy - sx*sy) / (n*sxx - sx*sx), c = (sy - m*sx) / n
                  /\ m.den > 0 /\ c.den > 0
                  /\ m.num * (n * sxx - sx * sx) = m.den * (n * sxy - sx * sy)
                  /\ c.num * n * m.den = c.den * (sy * m.den - m.num * sx)
           /\ fig.fit.slope = [num |-> 6, den |-> 1]
           /\ fig.fit.intercept = [num |-> 0 - 7, den |-> 1]
           /\ fig.fit.legend = [nan |-> FALSE, scaled |-> 60000]

C8_Witness ==
    /\ call = "fit"
    /\ x_input = DefaultX
    /\ y_input = DefaultY
    /\ fig # None
    /\ fig.fit # None
    /\ fig.fit.intercept = [num |-> 0 - 7, den |-> 1]

(***************************************************************************)
(* C9.  A fit is only ever invoked in a state that holds a plot, with a    *)
(* successful Plot Data since the last Clear, and Clear returns from any   *)
(* state to idle (fig = None, x_values = [], y_values = [], plotted =      *)
(* False).                                                                 *)
(***************************************************************************)
C9_Lifecycle ==
    [][/\ call' = "fit" => (fig # None /\ plotted /\ plot_since_clear)
       /\ event' = "clear" => Idle']_vars

\* a fit was invoked and its fitted plot is held
C9_Witness ==
    /\ call = "fit"
    /\ fig # None
    /\ fig.fit # None
    /\ plot_since_clear

(***************************************************************************)
(* C10.  As claimed: at the end of every script run plotted is True        *)
(* exactly when fig is not None, and the stored x_values / y_values are    *)
(* non-empty and of equal length exactly when a fig is held.               *)
(***************************************************************************)
C10_FlagsConsistent ==
    /\ plotted <=> (fig # None)
    /\ (x_values # <<>> /\ y_values # <<>> /\ Len(x_values) = Len(y_values))
          <=> (fig # None)

====
